---------------------------- MODULE Spec2Model ----------------------------
(***************************************************************************)
(* The preseason-ordering import scripts (import_f25_orders.py and         *)
(* import_s26_orders.py) as a state machine: a spreadsheet is loaded and   *)
(* cleaned, and one database transaction upserts the season, creates the   *)
(* missing products, creates one order per (Brand, Gym, Ship Month) group, *)
(* inserts one order item per row, recomputes the order totals and         *)
(* commits.  Several runs of the same script act on the same database,     *)
(* one after the other (mode "seq") or interleaved (mode "conc").          *)
(*                                                                         *)
(* The database is PostgreSQL at READ COMMITTED (psycopg2's default):      *)
(* every statement sees the committed rows and the rows its own            *)
(* transaction wrote; a write that meets another transaction's uncommitted *)
(* row with the same unique key, or its uncommitted version of the same    *)
(* row, waits for that transaction to end.                                 *)
(***************************************************************************)
EXTENDS Integers, Sequences, FiniteSets, TLC

VARIABLES
    mode,          \* "seq": runs one at a time; "conc": runs may interleave
    variant,       \* which script the operator runs: "F25" or "S26"
    xlsx,          \* the rows of the spreadsheet the script reads
    brands,        \* table brands (id, name): only read
    locations,     \* table locations (id, code): only read
    seasons,       \* committed rows of table seasons
    products,      \* committed rows of table products
    orders,        \* committed rows of table orders
    order_items,   \* committed rows of table order_items
    run,           \* run[r]: position and local variables of main() in run r
    tx,            \* tx[r]: rows run r's open transaction wrote, uncommitted
    overlapped     \* history: pairs of runs whose transactions were open together

vars == <<mode, variant, xlsx, brands, locations, seasons, products, orders,
          order_items, run, tx, overlapped>>

(***************************************************************************)
(* Bounds of the model.                                                    *)
(***************************************************************************)
MaxRows == 2        \* rows in the spreadsheet
MaxRuns == 2        \* runs of the script, one at a time (mode "seq")
ConcRows == 1       \* rows in the spreadsheet when runs interleave
ConcRuns == 2       \* runs of the script that may interleave (mode "conc")

Runs == 1..(IF MaxRuns > ConcRuns THEN MaxRuns ELSE ConcRuns)
RunsOf(m) == IF m = "seq" THEN 1..MaxRuns ELSE 1..ConcRuns

(***************************************************************************)
(* Text.  Strings are sequences of characters; the operators below are the *)
(* Python and SQL string operations the scripts use.                       *)
(***************************************************************************)
CharAt(s, i) == SubSeq(s, i, i)
Rest(s, i) == SubSeq(s, i, Len(s))
Prefix(s, n) == SubSeq(s, 1, IF Len(s) < n THEN Len(s) ELSE n)

\* The characters of the model's texts, in code-point order.
Ascii == " %-0123456789ABCDEFGHIJKLMNOPQRSTUVWXYZ\\_abcdefghijklmnopqrstuvwxyz"
LowerCase == "abcdefghijklmnopqrstuvwxyz"
UpperCase == "ABCDEFGHIJKLMNOPQRSTUVWXYZ"

CodePoint(c) == CHOOSE i \in 1..Len(Ascii) : CharAt(Ascii, i) = c

\* str.upper() of one character
UpperChar(c) ==
    IF \E i \in 1..Len(LowerCase) : CharAt(LowerCase, i) = c
    THEN CharAt(UpperCase, CHOOSE i \in 1..Len(LowerCase) : CharAt(LowerCase, i) = c)
    ELSE c

\* str.upper()
RECURSIVE Upper(_)
Upper(s) == IF s = "" THEN "" ELSE UpperChar(CharAt(s, 1)) \o Upper(Rest(s, 2))

\* str.lstrip(), str.rstrip(), str.strip()
RECURSIVE LStrip(_)
LStrip(s) == IF s # "" /\ CharAt(s, 1) = " " THEN LStrip(Rest(s, 2)) ELSE s

RECURSIVE RStrip(_)
RStrip(s) ==
    IF s # "" /\ CharAt(s, Len(s)) = " " THEN RStrip(SubSeq(s, 1, Len(s) - 1)) ELSE s

Strip(s) == RStrip(LStrip(s))

\* a < b for Python strings: by code points, a proper prefix first
RECURSIVE StrLess(_, _)
StrLess(a, b) ==
    IF b = "" THEN FALSE
    ELSE IF a = "" THEN TRUE
    ELSE IF CharAt(a, 1) # CharAt(b, 1)
         THEN CodePoint(CharAt(a, 1)) < CodePoint(CharAt(b, 1))
         ELSE StrLess(Rest(a, 2), Rest(b, 2))

\* SQL: s LIKE p.  In p, % matches any text, _ any one character, and a
\* backslash makes the character after it literal (PostgreSQL's default escape).
RECURSIVE Like(_, _)
Like(s, p) ==
    IF p = "" THEN s = ""
    ELSE LET c == CharAt(p, 1) IN
         IF c = "%" THEN \E k \in 1..(Len(s) + 1) : Like(Rest(s, k), Rest(p, 2))
         ELSE IF c = "_" THEN s # "" /\ Like(Rest(s, 2), Rest(p, 2))
         ELSE IF c = "\\"
              THEN /\ Len(p) >= 2
                   /\ s # ""
                   /\ CharAt(s, 1) = CharAt(p, 2)
                   /\ Like(Rest(s, 2), Rest(p, 3))
         ELSE s # "" /\ CharAt(s, 1) = c /\ Like(Rest(s, 2), Rest(p, 2))

(***************************************************************************)
(* The static tables of the two scripts.                                   *)
(***************************************************************************)
BRAND_MAP_F25 ==
    [n \in {"Prana", "Free Fly", "La Sportiva Footwear", "La Sportiva Apparel",
            "Petzl", "Montane", "Ripton", "Metolius", "Scarpa", "Sterling",
            "Duer", "Patagonia", "CAMP"} |-> n]

LOCATION_MAP_F25 ==
    ("SLC" :> "SLC") @@ ("SLC " :> "SLC") @@ ("South Main" :> "SOMA")
    @@ ("Ogden" :> "OGD") @@ ("OGden" :> "OGD")

SHIP_MONTH_MAP_F25 ==
    ("Jul" :> "2025-07-01") @@ ("Aug" :> "2025-08-01") @@ ("Sep" :> "2025-09-01")
    @@ ("Oct" :> "2025-10-01") @@ ("Nov" :> "2025-11-01") @@ ("Dec" :> "2025-12-01")
    @@ ("Jan" :> "2026-01-01") @@ ("ASAP " :> "2025-07-01")

BRAND_MAP_S26 ==
    ("Prana" :> "Prana") @@ ("Free Fly" :> "Free Fly")
    @@ ("LaSportivaApparel" :> "La Sportiva Apparel")
    @@ ("LaSportivaEquipment" :> "La Sportiva Equipment")
    @@ ("LaSportiva" :> "La Sportiva") @@ ("ArcteryxFW" :> "ArcteryxFW")
    @@ ("Arcteryx" :> "Arcteryx") @@ ("Toad&Co" :> "Toad&Co")
    @@ ("TenTree" :> "TenTree") @@ ("DUER" :> "DUER") @@ ("Sterling" :> "Sterling")
    @@ ("Scarpa" :> "Scarpa") @@ ("Petzl" :> "Petzl") @@ ("DMM" :> "DMM")
    @@ ("Metolius" :> "Metolius")

LOCATION_MAP_S26 ==
    ("SLC" :> "SLC") @@ ("SouthMain" :> "SOMA") @@ ("Ogden" :> "OGD")

SHIP_MONTH_MAP_S26 ==
    (126 :> <<"2026-01-01", "JAN">>) @@ (226 :> <<"2026-02-01", "FEB">>)
    @@ (326 :> <<"2026-03-01", "MAR">>) @@ (426 :> <<"2026-04-01", "APR">>)
    @@ (526 :> <<"2026-05-01", "MAY">>) @@ (626 :> <<"2026-06-01", "JUN">>)

BRAND_MAP(v) == IF v = "F25" THEN BRAND_MAP_F25 ELSE BRAND_MAP_S26
LOCATION_MAP(v) == IF v = "F25" THEN LOCATION_MAP_F25 ELSE LOCATION_MAP_S26
SeasonName(v) == IF v = "F25" THEN "Fall 2025" ELSE "Spring 2026"

\* A faulty ShipDate: SHIP_MONTH_MAP.get(ship_month) without a default
ShipDateNoDefault(v, ship_month) ==
    IF v = "F25"
    THEN IF ship_month \in DOMAIN SHIP_MONTH_MAP_F25
         THEN SHIP_MONTH_MAP_F25[ship_month] ELSE ""
    ELSE IF ship_month \in DOMAIN SHIP_MONTH_MAP_S26
         THEN SHIP_MONTH_MAP_S26[ship_month][1] ELSE ""

\* SHIP_MONTH_MAP.get(ship_month, default): the ship date of a label
ShipDate(v, ship_month) ==
    IF v = "F25"
    THEN IF ship_month \in DOMAIN SHIP_MONTH_MAP_F25
         THEN SHIP_MONTH_MAP_F25[ship_month] ELSE "2025-08-01"
    ELSE IF ship_month \in DOMAIN SHIP_MONTH_MAP_S26
         THEN SHIP_MONTH_MAP_S26[ship_month][1] ELSE "2026-03-01"

\* The period token of the order number: F25 cuts it from the label, S26
\* takes it from the ship-month table
MonthAbbr(v, ship_month) ==
    IF v = "F25"
    THEN Upper(Prefix(Strip(ship_month), 3))
    ELSE IF ship_month \in DOMAIN SHIP_MONTH_MAP_S26
         THEN SHIP_MONTH_MAP_S26[ship_month][2] ELSE "MAR"

YearSuffix(v) == IF v = "F25" THEN "25" ELSE "26"

\* order_number = f"{month_abbr}25-{brand_code}-{loc_code}"
OrderNumberFor(v, brand, gym, ship_month) ==
    LET month_abbr == MonthAbbr(v, ship_month)
        brand_code == Upper(Prefix(brand, 3))
        loc_code == IF gym \in DOMAIN LOCATION_MAP(v) THEN LOCATION_MAP(v)[gym] ELSE "UNK"
    IN  month_abbr \o YearSuffix(v) \o "-" \o brand_code \o "-" \o loc_code

(***************************************************************************)
(* The spreadsheet.  A row holds the cells the scripts read; `missing` is  *)
(* the set of columns whose cell is empty (NaN in the data frame).  A      *)
(* Quantity cell counts halves (3 stands for 1.5), so that fractional      *)
(* quantities exist; a Wholesale cell holds a whole number.                *)
(***************************************************************************)
Row(upc, brand, gym, ship_month, quantity, wholesale, missing) ==
    [UPC |-> upc, Brand |-> brand, Gym |-> gym, ShipMonth |-> ship_month,
     Quantity |-> quantity, Wholesale |-> wholesale, missing |-> missing]

\* The rows a spreadsheet is made of, by script and by family of cases:
\* "load" (cells the cleaning step acts on), "resolve" (labels that do not
\* resolve), "number" (groups whose order numbers meet), "conc" (the rows of
\* interleaved runs).
RowsOf(v, family) ==
    IF v = "F25" THEN
        CASE family = "load" ->
               { Row(" 1 ", "Prana", "SLC", "Aug", 4, 10, {}),
                 Row("  ", "Prana", "SLC", "Aug", -3, 5, {}),
                 Row("2", "Prana", "SLC", "Aug", 2, 5, {"Quantity"}),
                 Row("2", "Prana", "SLC", "Aug", 3, 5, {"Ship Month"}) }
          [] family = "resolve" ->
               { Row("2", "Nike", "SLC", "Aug", 2, 10, {}),
                 Row("2", "Prana", "SLC", "Aug", 4, 7, {}),
                 Row("1", "Prana", "Ogden", "Aug", 2, 5, {}),
                 Row("3", "Scarpa", "South Main", "Sep", 2, 5, {}) }
          [] family = "number" ->
               { Row("1", "Prana", "SLC", "Aug", 4, 10, {}),
                 Row("2", "Prana", "SLC ", "Aug ", 2, 5, {}),
                 Row("1", "La Sportiva Footwear", "South Main", "Mar", 2, 5, {}),
                 Row("2", "Prana", "SLC", "\\Au", 2, 5, {}),
                 Row("3", "Prana", "SLC", "_ug", 2, 5, {}) }
          [] OTHER ->
               { Row("1", "Prana", "SLC", "Aug", 4, 10, {}),
                 Row("2", "Prana", "SLC ", "Aug", 2, 5, {}),
                 Row("2", "Prana", "SLC", "\\Au", 2, 5, {}) }
    ELSE
        CASE family = "load" ->
               { Row(" 1 ", "Prana", "SLC", 126, 4, 10, {}),
                 Row("  ", "Prana", "SLC", 126, -3, 5, {}),
                 Row("2", "Prana", "SLC", 126, 2, 5, {"Quantity"}),
                 Row("2", "Prana", "SLC", 126, 3, 5, {"Ship Month"}) }
          [] family = "resolve" ->
               { Row("2", "Nike", "SLC", 126, 2, 10, {}),
                 Row("2", "Prana", "SLC", 126, 4, 7, {}),
                 Row("1", "Prana", "Ogden", 126, 2, 5, {}),
                 Row("3", "Scarpa", "SouthMain", 226, 2, 5, {}) }
          [] family = "number" ->
               { Row("1", "Prana", "SLC", 326, 4, 10, {}),
                 Row("2", "Prana", "SLC", 726, 2, 5, {}),
                 Row("1", "LaSportivaApparel", "SouthMain", 126, 2, 5, {}),
                 Row("2", "Prana", "SLC", 126, 2, 5, {}) }
          [] OTHER ->
               { Row("1", "Prana", "SLC", 126, 4, 10, {}),
                 Row("2", "Prana", "SouthMain", 126, 2, 5, {}),
                 Row("2", "Prana", "SLC", 726, 2, 5, {}) }

Families(m) == IF m = "seq" THEN {"load", "resolve", "number"} ELSE {"conc"}

\* The spreadsheets of at most n rows over a set of rows
Sheets(rows, n) == UNION { [1..k -> rows] : k \in 1..n }

\* astype(int) of a Quantity cell, which holds halves (q stands for q / 2):
\* the fraction is cut off, toward zero
ToInt(q) == IF q >= 0 THEN q \div 2 ELSE -((-q) \div 2)

\* dropna(subset=['UPC', 'Brand', 'Gym', 'Quantity'])
Required == {"UPC", "Brand", "Gym", "Quantity"}

\* A faulty Clean: no row is dropped
CleanKeepsAll(sheet) ==
    [i \in 1..Len(sheet) |->
        [sheet[i] EXCEPT !.UPC = Strip(@), !.Quantity = ToInt(@)]]

\* The cleaning step: rows without a required cell are dropped, UPC is
\* trimmed text and Quantity an integer
Clean(sheet) ==
    LET kept == SelectSeq(sheet, LAMBDA row : row.missing \cap Required = {})
    IN  [i \in 1..Len(kept) |->
            [kept[i] EXCEPT !.UPC = Strip(@), !.Quantity = ToInt(@)]]

\* df.drop_duplicates(subset=['UPC']): the places in df of the first row of
\* every UPC, in order
DropDuplicates(df) ==
    SelectSeq([i \in 1..Len(df) |-> i],
              LAMBDA i : \A j \in 1..(i - 1) : df[j].UPC # df[i].UPC)

\* a < b for the keys of groupby(['Brand', 'Gym', 'Ship Month']), which sorts
\* its groups: by brand, then gym, then ship month (a text in F25, a number in S26)
GroupLess(v, a, b) ==
    IF a[1] # b[1] THEN StrLess(a[1], b[1])
    ELSE IF a[2] # b[2] THEN StrLess(a[2], b[2])
    ELSE IF v = "F25" THEN StrLess(a[3], b[3]) ELSE a[3] < b[3]

GroupKey(row) == <<row.Brand, row.Gym, row.ShipMonth>>

\* A faulty SortedGroups: one group per row, not per distinct key
GroupsPerRow(v, df) ==
    LET rows == SelectSeq([i \in 1..Len(df) |-> i],
                          LAMBDA i : "Ship Month" \notin df[i].missing)
    IN  SortSeq([k \in 1..Len(rows) |-> GroupKey(df[rows[k]])],
                LAMBDA a, b : GroupLess(v, a, b))

\* The keys of df.groupby(['Brand', 'Gym', 'Ship Month']), sorted; a row with
\* an empty Ship Month cell belongs to no group (groupby drops NaN keys)
SortedGroups(v, df) ==
    LET firsts == SelectSeq([i \in 1..Len(df) |-> i],
                     LAMBDA i : /\ "Ship Month" \notin df[i].missing
                                /\ \A j \in 1..(i - 1) :
                                      \/ "Ship Month" \in df[j].missing
                                      \/ GroupKey(df[j]) # GroupKey(df[i]))
    IN  SortSeq([k \in 1..Len(firsts) |-> GroupKey(df[firsts[k]])],
                LAMBDA a, b : GroupLess(v, a, b))

(***************************************************************************)
(* The database.                                                           *)
(***************************************************************************)
NULL == <<>>     \* a column left to its default holds <<>>, a value v is <<v>>

\* dict.get(key): 0 stands for None (ids start at 1, so `not id` is id = 0)
Get(dict, key) == IF key \in DOMAIN dict THEN dict[key] ELSE 0

MaxOf(S) == CHOOSE m \in S : \A x \in S : x <= m

\* The id a serial column gives a new row: one no row, committed or not, holds
NewId(committed, pending) ==
    1 + MaxOf({0} \cup { x.id : x \in committed \cup UNION { pending[r] : r \in Runs } })

RECURSIVE SumLineTotals(_)
SumLineTotals(items) ==
    IF items = {} THEN 0
    ELSE LET it == CHOOSE x \in items : TRUE
         IN  it.line_total + SumLineTotals(items \ {it})

ActivePcs == {"season", "season_insert", "resolve", "products", "count", "insert",
              "items", "totals", "commit"}
Active(r) == run[r].pc \in ActivePcs

EmptyTx == [seasons |-> {}, products |-> {}, orders |-> {}, order_items |-> {}]

IdleRun ==
    [pc |-> "idle", df |-> <<>>, season_id |-> 0, brand_ids |-> <<>>,
     location_ids |-> <<>>, existing_products |-> <<>>, product_ids |-> <<>>,
     todo |-> <<>>, groups |-> <<>>, order_number |-> "", order_map |-> <<>>,
     rows |-> 0, products_created |-> 0, orders_created |-> 0,
     items_added |-> 0, items_skipped |-> 0, undone |-> FALSE]

\* What a statement of run r sees: the committed rows and its own
ViewSeasons(r) == seasons \cup tx[r].seasons
ViewProducts(r) == products \cup tx[r].products
ViewOrders(r) ==
    { o \in orders : \A n \in tx[r].orders : n.id # o.id } \cup tx[r].orders
ViewItems(r) == order_items \cup tx[r].order_items

\* One of the runs `holders`, another than r, has its transaction open: r
\* waits for the uncommitted row it holds
OthersHold(r, holders) == \E q \in holders \ {r} : Active(q)

Init ==
    /\ mode = "seq"
    /\ variant \in {"F25", "S26"}
    /\ \E family \in Families("seq") : xlsx \in Sheets(RowsOf(variant, family), MaxRows)
    /\ brands = { [id |-> 1, name |-> "Prana"],
                  [id |-> 2, name |-> "La Sportiva Footwear"],
                  [id |-> 3, name |-> "La Sportiva Apparel"] }
    /\ locations = { [id |-> 1, code |-> "SLC"], [id |-> 2, code |-> "SOMA"] }
    /\ seasons \in IF variant = "S26"
                   THEN { {}, { [id |-> 1, name |-> "Spring 2026", status |-> "ordering"] } }
                   ELSE { {} }
    /\ products \in { {}, { [id |-> 1, upc |-> "1", wholesale_cost |-> 99,
                             brand_id |-> 1, season_id |-> 0] } }
    /\ orders = {}
    /\ order_items = {}
    /\ run = [r \in Runs |-> IdleRun]
    /\ tx = [r \in Runs |-> EmptyTx]
    /\ overlapped = {}

InitConc ==
    /\ mode = "conc"
    /\ variant \in {"F25", "S26"}
    /\ xlsx \in Sheets(RowsOf(variant, "conc"), ConcRows)
    /\ brands = { [id |-> 1, name |-> "Prana"],
                  [id |-> 2, name |-> "La Sportiva Footwear"],
                  [id |-> 3, name |-> "La Sportiva Apparel"] }
    /\ locations = { [id |-> 1, code |-> "SLC"], [id |-> 2, code |-> "SOMA"] }
    /\ seasons \in IF variant = "S26"
                   THEN { {}, { [id |-> 1, name |-> "Spring 2026", status |-> "ordering"] } }
                   ELSE { {} }
    /\ products \in { {}, { [id |-> 1, upc |-> "1", wholesale_cost |-> 99,
                             brand_id |-> 1, season_id |-> 0] } }
    /\ orders = {}
    /\ order_items = {}
    /\ run = [r \in Runs |-> IdleRun]
    /\ tx = [r \in Runs |-> EmptyTx]
    /\ overlapped = {}

(***************************************************************************)
(* main(), one action per statement sent to the database; the Python       *)
(* between two statements belongs to the action of the statement after it. *)
(***************************************************************************)
Set(r, new) == run' = [run EXCEPT ![r] = new]
Write(r, new) == tx' = [tx EXCEPT ![r] = new]

\* A faulty Rollback: the handler commits what the transaction wrote so far
RollbackKeepsRows(r) ==
    /\ run' = [run EXCEPT ![r] = [IdleRun EXCEPT !.pc = "failed",
                                                 !.undone = tx[r] # EmptyTx]]
    /\ tx' = [tx EXCEPT ![r] = EmptyTx]
    /\ seasons' = seasons \cup tx[r].seasons
    /\ products' = products \cup tx[r].products
    /\ orders' = ViewOrders(r)
    /\ order_items' = ViewItems(r)

\* except Exception: conn.rollback(); raise.  The rows the transaction wrote
\* are dropped and the committed rows stay; `undone` records that the run had
\* written rows.
Rollback(r) ==
    /\ run' = [run EXCEPT ![r] = [IdleRun EXCEPT !.pc = "failed",
                                                 !.undone = tx[r] # EmptyTx]]
    /\ tx' = [tx EXCEPT ![r] = EmptyTx]
    /\ UNCHANGED <<seasons, products, orders, order_items>>

\* Where main() goes when the product loop ends: the groups are formed, and
\* with no group the order loop is over too
AfterProducts(local) ==
    LET groups == SortedGroups(variant, local.df)
    IN  [local EXCEPT !.groups = groups,
                      !.pc = IF groups = <<>> THEN "items" ELSE "count"]

\* Where main() goes when one group of the order loop is done
NextGroup(local) ==
    [local EXCEPT !.groups = Tail(@),
                  !.order_number = "",
                  !.pc = IF Tail(local.groups) = <<>> THEN "items" ELSE "count"]

\* pd.read_excel, the cleaning step and psycopg2.connect.  In mode "seq" the
\* operator starts a run when no other is in progress.
Load(r) ==
    /\ r \in RunsOf(mode)
    /\ run[r].pc = "idle"
    /\ \A q \in Runs : q < r => run[q].pc # "idle"
    /\ mode = "seq" => \A q \in Runs : ~Active(q)
    /\ LET df == Clean(xlsx)
       IN  Set(r, [run[r] EXCEPT !.pc = "season", !.df = df, !.rows = Len(df)])
    /\ overlapped' = overlapped \cup { {r, q} : q \in { x \in Runs : Active(x) } }
    /\ UNCHANGED <<mode, variant, xlsx, brands, locations, seasons, products,
                   orders, order_items, tx>>

\* F25, step 1: INSERT INTO seasons ... ON CONFLICT (name) DO UPDATE ... RETURNING id
SeasonUpsert(r) ==
    /\ variant = "F25"
    /\ run[r].pc = "season"
    /\ ~OthersHold(r, { q \in Runs : \E s \in tx[q].seasons :
                                      s.name = SeasonName(variant) })
    /\ LET found == { s \in seasons : s.name = SeasonName(variant) }
           row == IF found # {} THEN CHOOSE s \in found : TRUE
                  ELSE [id |-> NewId(seasons, [q \in Runs |-> tx[q].seasons]),
                        name |-> SeasonName(variant), status |-> "ordering"]
       IN  /\ Write(r, [tx[r] EXCEPT !.seasons = @ \cup {row}])
           /\ Set(r, [run[r] EXCEPT !.pc = "resolve", !.season_id = row.id])
    /\ UNCHANGED <<mode, variant, xlsx, brands, locations, seasons, products,
                   orders, order_items, overlapped>>

\* S26, step 1: SELECT id FROM seasons WHERE name = 'Spring 2026'
SeasonSelect(r) ==
    /\ variant = "S26"
    /\ run[r].pc = "season"
    /\ LET result == { s \in ViewSeasons(r) : s.name = SeasonName(variant) }
       IN  IF result # {}
           THEN Set(r, [run[r] EXCEPT !.pc = "resolve",
                                      !.season_id = (CHOOSE s \in result : TRUE).id])
           ELSE Set(r, [run[r] EXCEPT !.pc = "season_insert"])
    /\ UNCHANGED <<mode, variant, xlsx, brands, locations, seasons, products,
                   orders, order_items, tx, overlapped>>

\* S26, step 1: INSERT INTO seasons ... RETURNING id.  The name is unique: the
\* insert waits for an open transaction that inserted it, and raises when the
\* name is committed by now.
SeasonInsert(r) ==
    /\ run[r].pc = "season_insert"
    /\ ~OthersHold(r, { q \in Runs : \E s \in tx[q].seasons :
                                      s.name = SeasonName(variant) })
    /\ IF \E s \in seasons : s.name = SeasonName(variant)
       THEN Rollback(r)
       ELSE LET row == [id |-> NewId(seasons, [q \in Runs |-> tx[q].seasons]),
                        name |-> SeasonName(variant), status |-> "ordering"]
            IN  /\ Write(r, [tx[r] EXCEPT !.seasons = @ \cup {row}])
                /\ Set(r, [run[r] EXCEPT !.pc = "resolve", !.season_id = row.id])
                /\ UNCHANGED <<seasons, products, orders, order_items>>
    /\ UNCHANGED <<mode, variant, xlsx, brands, locations, overlapped>>

\* brand_ids: the labels of BRAND_MAP whose database name is in table brands
BrandIds(v) ==
    LET db_brands == [n \in { b.name : b \in brands } |->
                         (CHOOSE b \in brands : b.name = n).id]
        mapped == { e \in DOMAIN BRAND_MAP(v) : BRAND_MAP(v)[e] \in DOMAIN db_brands }
    IN  [e \in mapped |-> db_brands[BRAND_MAP(v)[e]]]

\* location_ids: the labels of LOCATION_MAP whose code is in table locations
LocationIds(v) ==
    LET db_locations == [c \in { l.code : l \in locations } |->
                            (CHOOSE l \in locations : l.code = c).id]
        mapped == { e \in DOMAIN LOCATION_MAP(v) : LOCATION_MAP(v)[e] \in DOMAIN db_locations }
    IN  [e \in mapped |-> db_locations[LOCATION_MAP(v)[e]]]

\* A faulty ExistingProducts: the products that are there are not looked up
ExistingProductsNone(r) == <<>>

\* existing_products: SELECT id, upc FROM products WHERE upc IS NOT NULL
ExistingProducts(r) ==
    [u \in { p.upc : p \in ViewProducts(r) } |->
        (CHOOSE p \in ViewProducts(r) : p.upc = u).id]

\* Steps 2, 3 and 4 up to the product loop: the three SELECTs
Resolve(r) ==
    /\ run[r].pc = "resolve"
    /\ LET local == [run[r] EXCEPT !.brand_ids = BrandIds(variant),
                                   !.location_ids = LocationIds(variant),
                                   !.existing_products = ExistingProducts(r),
                                   !.todo = DropDuplicates(run[r].df),
                                   !.pc = "products"]
       IN  Set(r, IF local.todo = <<>> THEN AfterProducts(local) ELSE local)
    /\ UNCHANGED <<mode, variant, xlsx, brands, locations, seasons, products,
                   orders, order_items, tx, overlapped>>

\* The row INSERT INTO products writes from a spreadsheet row
ProductRow(id, upc, row, brand_id, season_id) ==
    [id |-> id, upc |-> upc, wholesale_cost |-> row.Wholesale,
     brand_id |-> brand_id, season_id |-> season_id]

\* Step 4, one turn of the loop over the first rows of the UPCs: reuse the
\* product, skip the UPC of an unresolved brand, or INSERT INTO products ...
\* ON CONFLICT (upc) DO UPDATE SET upc = EXCLUDED.upc RETURNING id
ProductStep(r) ==
    /\ run[r].pc = "products"
    /\ LET row == run[r].df[Head(run[r].todo)]
           upc == Strip(row.UPC)
           brand_id == Get(run[r].brand_ids, row.Brand)
           step(local) == IF Tail(run[r].todo) = <<>>
                          THEN AfterProducts([local EXCEPT !.todo = <<>>])
                          ELSE [local EXCEPT !.todo = Tail(@)]
       IN  IF upc \in DOMAIN run[r].existing_products
           THEN /\ Set(r, step([run[r] EXCEPT
                       !.product_ids = (upc :> run[r].existing_products[upc]) @@ @]))
                /\ UNCHANGED tx
           ELSE IF brand_id = 0
           THEN /\ Set(r, step(run[r]))
                /\ UNCHANGED tx
           ELSE /\ ~OthersHold(r, { q \in Runs : \E p \in tx[q].products : p.upc = upc })
                /\ LET conflict == { p \in ViewProducts(r) : p.upc = upc }
                       id == IF conflict # {} THEN (CHOOSE p \in conflict : TRUE).id
                             ELSE NewId(products, [q \in Runs |-> tx[q].products])
                   IN  /\ Write(r, IF conflict # {} THEN tx[r]
                                   ELSE [tx[r] EXCEPT !.products = @ \cup
                                           {ProductRow(id, upc, row, brand_id,
                                                       run[r].season_id)}])
                       /\ Set(r, step([run[r] EXCEPT
                              !.product_ids = (upc :> id) @@ @,
                              !.products_created = @ + 1]))
    /\ UNCHANGED <<mode, variant, xlsx, brands, locations, seasons, products,
                   orders, order_items, overlapped>>

\* A faulty CountLike: only the orders of this transaction are counted
CountLikeOwn(r, order_number) ==
    Cardinality({ o \in tx[r].orders : Like(o.order_number, order_number \o "%") })

\* SELECT COUNT(*) FROM orders WHERE order_number LIKE order_number + '%'
CountLike(r, order_number) ==
    Cardinality({ o \in ViewOrders(r) : Like(o.order_number, order_number \o "%") })

\* if count > 0: order_number = f"{order_number}-{count + 1}"
Disambiguate(order_number, count) ==
    IF count > 0 THEN order_number \o "-" \o ToString(count + 1) ELSE order_number

\* Step 5, one turn of the loop over the groups, up to the count: a group
\* whose brand or gym has no id is skipped, else the order number is made and
\* the orders that match it are counted
OrderCount(r) ==
    /\ run[r].pc = "count"
    /\ LET g == Head(run[r].groups)
           brand_id == Get(run[r].brand_ids, g[1])
           location_id == Get(run[r].location_ids, g[2])
           order_number == OrderNumberFor(variant, g[1], g[2], g[3])
       IN  IF brand_id = 0 \/ location_id = 0
           THEN Set(r, NextGroup(run[r]))
           ELSE Set(r, [run[r] EXCEPT
                    !.pc = "insert",
                    !.order_number =
                        Disambiguate(order_number, CountLike(r, order_number))])
    /\ UNCHANGED <<mode, variant, xlsx, brands, locations, seasons, products,
                   orders, order_items, tx, overlapped>>

\* The row INSERT INTO orders writes; current_total is left to its default
\* and `run` records the run that wrote it
OrderRow(id, order_number, season_id, brand_id, location_id, ship_date, r) ==
    [id |-> id, order_number |-> order_number, season_id |-> season_id,
     brand_id |-> brand_id, location_id |-> location_id, ship_date |-> ship_date,
     current_total |-> NULL, run |-> r]

\* Step 5, the rest of the turn: INSERT INTO orders ... RETURNING id
OrderInsert(r) ==
    /\ run[r].pc = "insert"
    /\ LET g == Head(run[r].groups)
           id == NewId(orders, [q \in Runs |-> tx[q].orders])
           row == OrderRow(id, run[r].order_number, run[r].season_id,
                           Get(run[r].brand_ids, g[1]), Get(run[r].location_ids, g[2]),
                           ShipDate(variant, g[3]), r)
       IN  /\ Write(r, [tx[r] EXCEPT !.orders = @ \cup {row}])
           /\ Set(r, NextGroup([run[r] EXCEPT !.order_map = (g :> id) @@ @,
                                              !.orders_created = @ + 1]))
    /\ UNCHANGED <<mode, variant, xlsx, brands, locations, seasons, products,
                   orders, order_items, overlapped>>

\* A faulty OrderOf: the order is looked up by brand and gym alone
OrderOfBrandGym(order_map, row) ==
    LET keys == { g \in DOMAIN order_map : g[1] = row.Brand /\ g[2] = row.Gym }
    IN  IF "Ship Month" \in row.missing \/ keys = {} THEN 0
        ELSE order_map[CHOOSE g \in keys : TRUE]

\* order_map.get((row['Brand'], row['Gym'], row['Ship Month'])): an empty
\* Ship Month cell is the key of no order
OrderOf(order_map, row) ==
    IF "Ship Month" \in row.missing THEN 0 ELSE Get(order_map, GroupKey(row))

\* A faulty ItemLoop: a row without product or order is passed over uncounted
RECURSIVE ItemLoopUncounted(_, _, _, _)
ItemLoopUncounted(local, first_id, i, acc) ==
    IF i > Len(local.df) THEN acc
    ELSE LET row == local.df[i]
             product_id == Get(local.product_ids, Strip(row.UPC))
             order_id == OrderOf(local.order_map, row)
         IN  IF product_id = 0 \/ order_id = 0
             THEN ItemLoopUncounted(local, first_id, i + 1, acc)
             ELSE ItemLoopUncounted(local, first_id, i + 1,
                      [acc EXCEPT
                         !.items_added = @ + 1,
                         !.items = @ \cup
                            {[id |-> first_id + acc.items_added,
                              order_id |-> order_id, product_id |-> product_id,
                              quantity |-> row.Quantity,
                              unit_cost |-> row.Wholesale,
                              line_total |-> row.Wholesale * row.Quantity,
                              row |-> i]}])

\* Step 6, the loop over all rows from row i on: `acc` holds the items
\* inserted and the two counters so far.  `row` records the place in df of
\* the spreadsheet row an item was made from.
RECURSIVE ItemLoop(_, _, _, _)
ItemLoop(local, first_id, i, acc) ==
    IF i > Len(local.df) THEN acc
    ELSE LET row == local.df[i]
             product_id == Get(local.product_ids, Strip(row.UPC))
             order_id == OrderOf(local.order_map, row)
         IN  IF product_id = 0 \/ order_id = 0
             THEN ItemLoop(local, first_id, i + 1,
                           [acc EXCEPT !.items_skipped = @ + 1])
             ELSE ItemLoop(local, first_id, i + 1,
                      [acc EXCEPT
                         !.items_added = @ + 1,
                         !.items = @ \cup
                            {[id |-> first_id + acc.items_added,
                              order_id |-> order_id, product_id |-> product_id,
                              quantity |-> row.Quantity,
                              unit_cost |-> row.Wholesale,
                              line_total |-> row.Wholesale * row.Quantity,
                              row |-> i]}])

\* Step 6: INSERT INTO order_items, once per row that has a product and an order
Items(r) ==
    /\ run[r].pc = "items"
    /\ LET done == ItemLoop(run[r],
                            NewId(order_items, [q \in Runs |-> tx[q].order_items]), 1,
                            [items |-> {}, items_added |-> 0, items_skipped |-> 0])
       IN  /\ Write(r, [tx[r] EXCEPT !.order_items = @ \cup done.items])
           /\ Set(r, [run[r] EXCEPT !.pc = "totals",
                                    !.items_added = done.items_added,
                                    !.items_skipped = done.items_skipped])
    /\ UNCHANGED <<mode, variant, xlsx, brands, locations, seasons, products,
                   orders, order_items, overlapped>>

\* A faulty TotalOf: the subquery without its WHERE order_id = o.id
TotalOfAllItems(r, o) == SumLineTotals(ViewItems(r))

\* SELECT COALESCE(SUM(line_total), 0) FROM order_items WHERE order_id = o.id
TotalOf(r, o) == SumLineTotals({ it \in ViewItems(r) : it.order_id = o.id })

\* Step 7: UPDATE orders o SET current_total = (...) WHERE season_id = %s.
\* The update waits for an open transaction that updated one of its rows.
UpdateTotals(r) ==
    /\ run[r].pc = "totals"
    /\ LET mine == { o \in ViewOrders(r) : o.season_id = run[r].season_id }
       IN  /\ ~OthersHold(r, { q \in Runs : \E n \in tx[q].orders, o \in mine :
                                          n.id = o.id })
           /\ Write(r, [tx[r] EXCEPT !.orders =
                  { o \in @ : o \notin mine } \cup
                  { [o EXCEPT !.current_total = <<TotalOf(r, o)>>] : o \in mine }])
    /\ Set(r, [run[r] EXCEPT !.pc = "commit"])
    /\ UNCHANGED <<mode, variant, xlsx, brands, locations, seasons, products,
                   orders, order_items, overlapped>>

\* conn.commit(): the rows the transaction wrote become the committed rows.
\* The run keeps the counters of its summary.
Commit(r) ==
    /\ run[r].pc = "commit"
    /\ seasons' = { s \in seasons : \A n \in tx[r].seasons : n.id # s.id }
                  \cup tx[r].seasons
    /\ products' = products \cup tx[r].products
    /\ orders' = ViewOrders(r)
    /\ order_items' = ViewItems(r)
    /\ tx' = [tx EXCEPT ![r] = EmptyTx]
    /\ run' = [run EXCEPT ![r] =
                  [IdleRun EXCEPT !.pc = "done",
                                  !.rows = run[r].rows,
                                  !.products_created = run[r].products_created,
                                  !.orders_created = run[r].orders_created,
                                  !.items_added = run[r].items_added,
                                  !.items_skipped = run[r].items_skipped]]
    /\ UNCHANGED <<mode, variant, xlsx, brands, locations, overlapped>>

\* A statement raises (the connection drops, a constraint or a deadlock
\* aborts it, ...): the handler rolls the transaction back and re-raises
Fail(r) ==
    /\ Active(r)
    /\ Rollback(r)
    /\ UNCHANGED <<mode, variant, xlsx, brands, locations, overlapped>>

Next ==
    \E r \in Runs :
        \/ Load(r)
        \/ SeasonUpsert(r)
        \/ SeasonSelect(r)
        \/ SeasonInsert(r)
        \/ Resolve(r)
        \/ ProductStep(r)
        \/ OrderCount(r)
        \/ OrderInsert(r)
        \/ Items(r)
        \/ UpdateTotals(r)
        \/ Commit(r)
        \/ Fail(r)

\* Runs one at a time
Spec == Init /\ [][Next]_vars

\* Runs that may interleave
SpecConc == InitConc /\ [][Next]_vars

(***************************************************************************)
(* Properties.                                                             *)
(***************************************************************************)
StartsWith(s, p) == Len(p) <= Len(s) /\ SubSeq(s, 1, Len(p)) = p

\* The text of an order number before its first "-": period token and year
RECURSIVE TokenOf(_)
TokenOf(s) ==
    IF s = "" \/ CharAt(s, 1) = "-" THEN "" ELSE CharAt(s, 1) \o TokenOf(Rest(s, 2))

\* The orders run r inserted, as its transaction holds them
OwnOrders(r) == { o \in tx[r].orders : o.run = r }

\* The sum of the line totals of the items of order id among `items`, item by item
RECURSIVE LineTotalsUpTo(_, _, _)
LineTotalsUpTo(items, id, n) ==
    IF n = 0 THEN 0
    ELSE LineTotalsUpTo(items, id, n - 1)
         + (IF \E it \in items : it.id = n /\ it.order_id = id
            THEN (CHOOSE it \in items : it.id = n /\ it.order_id = id).line_total
            ELSE 0)

LineTotals(items, id) == LineTotalsUpTo(items, id, MaxOf({0} \cup { it.id : it \in items }))

Resolved(brand, gym) ==
    /\ brand \in DOMAIN BRAND_MAP(variant)
    /\ \E b \in brands : b.name = BRAND_MAP(variant)[brand]
    /\ gym \in DOMAIN LOCATION_MAP(variant)
    /\ \E l \in locations : l.code = LOCATION_MAP(variant)[gym]

\* C1: once the Aggregator step of a run is done, every order of the run's
\* season that the run sees (its own and those earlier runs committed) stores
\* the sum of the line totals of its order items, 0 for an order without items;
\* and every committed order stores the sum of its committed items.
C1_TotalsAfterAggregator ==
    /\ \A r \in Runs : run[r].pc = "commit" =>
          \A o \in ViewOrders(r) : o.season_id = run[r].season_id =>
              o.current_total = <<LineTotals(ViewItems(r), o.id)>>
    /\ \A o \in orders : o.current_total = <<LineTotals(order_items, o.id)>>

\* C1 happens: a run has recomputed the totals, one of its own orders has two
\* items and a total that is not 0, and an earlier run's order of the season
\* is among the orders it updated
C1_Witness ==
    \E r \in Runs :
        /\ run[r].pc = "commit"
        /\ \E o \in OwnOrders(r) :
              /\ Cardinality({ it \in tx[r].order_items : it.order_id = o.id }) = 2
              /\ o.current_total # <<0>>
        /\ \E o \in tx[r].orders : o.run # r /\ o.season_id = run[r].season_id

\* C2: a step that is not the commit of a run, the rollback of a failed run
\* included, leaves the committed seasons, products, orders and order items
\* as they were
C2_AllOrNothing ==
    [][ (\A r \in Runs : ~(run[r].pc = "commit" /\ run'[r].pc = "done"))
          => UNCHANGED <<seasons, products, orders, order_items>> ]_vars

\* C2 happens: a run failed after its transaction had written rows
C2_Witness == \E r \in Runs : run[r].pc = "failed" /\ run[r].undone

\* C3 (as claimed): with runs one at a time, the orders a run sees have
\* distinct order numbers, and a run about to insert an order has given it a
\* suffix whenever an order it sees starts with the synthesized number
C3_UniqueOrderNumbers ==
    mode = "seq" =>
        \A r \in Runs :
            /\ \A o1, o2 \in ViewOrders(r) :
                  o1.id # o2.id => o1.order_number # o2.order_number
            /\ run[r].pc = "insert" =>
                  LET g == Head(run[r].groups)
                      base == OrderNumberFor(variant, g[1], g[2], g[3])
                  IN  (\E o \in ViewOrders(r) : StartsWith(o.order_number, base))
                        => /\ run[r].order_number # base
                           /\ StartsWith(run[r].order_number, base \o "-")
                           /\ \A o \in ViewOrders(r) :
                                 o.order_number # run[r].order_number

\* C4: there is at most one product per UPC, no product row is ever changed
\* or removed, and once a run of the spreadsheet has committed, a later run of
\* the same spreadsheet creates no product and changes no product
C4_ProductIdempotence ==
    /\ [](\A r \in Runs :
            /\ \A p1, p2 \in ViewProducts(r) : p1.upc = p2.upc => p1 = p2
            /\ (\E q \in Runs : q < r /\ run[q].pc = "done") =>
                   run[r].products_created = 0 /\ tx[r].products = {})
    /\ [][ /\ products \subseteq products'
           /\ (\E q \in Runs : run[q].pc = "done") => products' = products ]_vars

\* C4 happens: a second run of the spreadsheet is about to commit after the
\* first one committed and created a product that the second one reuses
C4_Witness ==
    \E r, q \in Runs :
        /\ q < r /\ run[q].pc = "done" /\ run[q].products_created > 0
        /\ run[r].pc = "commit"
        /\ \E p \in products :
              p.season_id # 0 /\ Get(run[r].product_ids, p.upc) = p.id

\* C5: every order item an open transaction inserted references a product the
\* run sees with the UPC of the item's row, committed before or inserted by
\* this run, and an order this run inserted for the row's own brand, gym and
\* ship month; every committed item references a committed product and order
C5_ItemReferences ==
    /\ \A r \in Runs : \A it \in tx[r].order_items :
          LET row == run[r].df[it.row] IN
          /\ \E p \in ViewProducts(r) : p.id = it.product_id /\ p.upc = row.UPC
          /\ "Ship Month" \notin row.missing
          /\ \E o \in OwnOrders(r) :
                /\ o.id = it.order_id
                /\ Get(run[r].order_map, GroupKey(row)) = o.id
                /\ o.ship_date = ShipDate(variant, row.ShipMonth)
                /\ \E b \in brands :
                      b.id = o.brand_id /\ b.name = BRAND_MAP(variant)[row.Brand]
                /\ \E l \in locations :
                      l.id = o.location_id /\ l.code = LOCATION_MAP(variant)[row.Gym]
    /\ \A it \in order_items :
          /\ \E p \in products : p.id = it.product_id
          /\ \E o \in orders : o.id = it.order_id

\* C5 happens: a run has inserted an item on a product that was there before
\* and an item on a product it created
C5_Witness ==
    \E r \in Runs :
        /\ run[r].pc = "commit"
        /\ \E it \in tx[r].order_items, p \in products : p.id = it.product_id
        /\ \E it \in tx[r].order_items, p \in tx[r].products : p.id = it.product_id

\* The places in the spreadsheet of the rows that hold all four required cells
KeptPlaces == { i \in 1..Len(xlsx) : xlsx[i].missing \cap Required = {} }

\* The place in the spreadsheet of the k-th row that holds them
KeptPlace(k) ==
    CHOOSE i \in KeptPlaces : Cardinality({ j \in KeptPlaces : j <= i }) = k

Blanks(s) == \A i \in 1..Len(s) : CharAt(s, i) = " "

\* C6 (as claimed): every cleaned row has a Quantity >= 0, a UPC that is not
\* empty, and all four required cells
C6_CleanedRows ==
    \A r \in Runs : \A i \in 1..Len(run[r].df) :
        /\ run[r].df[i].Quantity >= 0
        /\ run[r].df[i].UPC # ""
        /\ run[r].df[i].missing \cap Required = {}

\* C6 (amended): the cleaned rows are the spreadsheet's rows that hold all
\* four required cells, in order; the UPC of each is the cell's text without
\* the blanks at its ends (it may be empty), its Quantity the whole number
\* next to the cell's value on the side of zero (it may be negative), and the
\* other cells are as in the spreadsheet
C6_CleanedRowsAmended ==
    \A r \in Runs : Active(r) =>
        /\ Len(run[r].df) = Cardinality(KeptPlaces)
        /\ \A k \in 1..Len(run[r].df) :
              LET row == run[r].df[k]
                  raw == xlsx[KeptPlace(k)]
              IN  /\ row.missing \cap Required = {}
                  /\ row.UPC = "" \/ (CharAt(row.UPC, 1) # " "
                                      /\ CharAt(row.UPC, Len(row.UPC)) # " ")
                  /\ \E a \in 0..Len(raw.UPC), b \in 0..Len(raw.UPC) :
                        /\ a + Len(row.UPC) + b = Len(raw.UPC)
                        /\ Blanks(SubSeq(raw.UPC, 1, a))
                        /\ SubSeq(raw.UPC, a + 1, a + Len(row.UPC)) = row.UPC
                        /\ Blanks(Rest(raw.UPC, a + Len(row.UPC) + 1))
                  /\ IF raw.Quantity >= 0
                     THEN 2 * row.Quantity <= raw.Quantity
                          /\ raw.Quantity < 2 * row.Quantity + 2
                     ELSE 2 * row.Quantity - 2 < raw.Quantity
                          /\ raw.Quantity <= 2 * row.Quantity
                  /\ <<row.Brand, row.Gym, row.ShipMonth, row.Wholesale, row.missing>>
                     = <<raw.Brand, raw.Gym, raw.ShipMonth, raw.Wholesale, raw.missing>>

\* C6 happens: the cleaning step dropped a row and kept one whose UPC cell is
\* blank and whose quantity is negative
C6_Witness ==
    \E r \in Runs :
        /\ Active(r)
        /\ Len(run[r].df) < Len(xlsx)
        /\ \E i \in 1..Len(run[r].df) :
              run[r].df[i].UPC = "" /\ run[r].df[i].Quantity < 0

\* The group of a row when an empty Ship Month cell counts as a ship period
RowGroup(row) ==
    IF "Ship Month" \in row.missing THEN <<row.Brand, row.Gym>> ELSE GroupKey(row)

\* C7 (as claimed): a run about to commit has inserted exactly one order per
\* distinct (brand, gym, ship period) of the cleaned rows whose brand and gym
\* resolve, none for the others, and every row of a group with an order has
\* an order item on that order
C7_OneOrderPerGroup ==
    \A r \in Runs : run[r].pc = "commit" =>
        LET df == run[r].df
            resolved == { RowGroup(df[i]) : i \in { j \in 1..Len(df) :
                              Resolved(df[j].Brand, df[j].Gym) } }
        IN  /\ Cardinality(OwnOrders(r)) = Cardinality(resolved)
            /\ \A i \in 1..Len(df) :
                  IF Resolved(df[i].Brand, df[i].Gym)
                  THEN \E o \in OwnOrders(r) :
                          /\ Get(run[r].order_map, RowGroup(df[i])) = o.id
                          /\ \E it \in tx[r].order_items :
                                it.row = i /\ it.order_id = o.id
                  ELSE /\ Get(run[r].order_map, RowGroup(df[i])) = 0
                       /\ \A it \in tx[r].order_items : it.row # i

\* C7 (amended): a run about to commit has inserted exactly one order per
\* distinct (brand, gym, ship month) of the cleaned rows that have a Ship
\* Month and whose brand and gym resolve, and none for the other rows; a row
\* has an order item, one, on the order of its group, exactly when its group
\* has an order and its UPC has a product id
C7_OneOrderPerGroupAmended ==
    \A r \in Runs : run[r].pc = "commit" =>
        LET df == run[r].df
            grouped == { i \in 1..Len(df) :
                            /\ "Ship Month" \notin df[i].missing
                            /\ Resolved(df[i].Brand, df[i].Gym) }
            keys == { GroupKey(df[i]) : i \in grouped }
        IN  /\ Cardinality(OwnOrders(r)) = Cardinality(keys)
            /\ run[r].orders_created = Cardinality(keys)
            /\ DOMAIN run[r].order_map = keys
            /\ \A g \in keys : \E o \in OwnOrders(r) : o.id = run[r].order_map[g]
            /\ \A g, h \in keys : g # h => run[r].order_map[g] # run[r].order_map[h]
            /\ \A i \in 1..Len(df) :
                  LET its == { it \in tx[r].order_items : it.row = i }
                  IN  IF i \in grouped /\ Get(run[r].product_ids, df[i].UPC) # 0
                      THEN /\ Cardinality(its) = 1
                           /\ \A it \in its :
                                 it.order_id = run[r].order_map[GroupKey(df[i])]
                      ELSE its = {}

\* C7 happens: two rows of one group gave one order and two order items
C7_Witness ==
    \E r \in Runs :
        /\ run[r].pc = "commit"
        /\ Len(run[r].df) = 2
        /\ GroupKey(run[r].df[1]) = GroupKey(run[r].df[2])
        /\ Cardinality(OwnOrders(r)) = 1
        /\ Cardinality(tx[r].order_items) = 2

\* C8: once the item loop of a run is done, no row whose brand or gym does
\* not resolve has an order item, every row has at most one, items added is
\* the number of rows with an item and items skipped the number of rows
\* without; the two add up to the number of cleaned rows, in the summary too
C8_SkippedCounted ==
    \A r \in Runs :
        /\ run[r].pc \in {"totals", "commit"} =>
              LET df == run[r].df
                  with == { i \in 1..Len(df) : \E it \in tx[r].order_items : it.row = i }
              IN  /\ \A i \in 1..Len(df) :
                        ~Resolved(df[i].Brand, df[i].Gym) => i \notin with
                  /\ \A a, b \in tx[r].order_items : a.row = b.row => a = b
                  /\ run[r].items_added = Cardinality(with)
                  /\ run[r].items_skipped = Len(df) - Cardinality(with)
                  /\ run[r].rows = Len(df)
        /\ run[r].pc \in {"totals", "commit", "done"} =>
              run[r].items_added + run[r].items_skipped = run[r].rows

\* C8 happens: of two rows, the one whose gym does not resolve was skipped
\* and the other one got its item
C8_Witness ==
    \E r \in Runs :
        /\ run[r].pc = "commit"
        /\ run[r].items_added = 1
        /\ run[r].items_skipped = 1
        /\ \E i \in 1..Len(run[r].df) :
              /\ run[r].df[i].Brand \in DOMAIN run[r].brand_ids
              /\ run[r].df[i].Gym \notin DOMAIN run[r].location_ids

HasEscape(s) == \E i \in 1..Len(s) : CharAt(s, i) = "\\"

\* C9: two committed orders have the same order number only when the runs
\* that inserted them were in progress at the same time (or, C3, when the
\* number holds the escape character of LIKE): interleaved runs can choose
\* the same number, runs one at a time do not
C9_DuplicatesNeedOverlap ==
    \A o1, o2 \in orders :
        (o1.id # o2.id /\ o1.order_number = o2.order_number)
            => \/ (o1.run # o2.run /\ {o1.run, o2.run} \in overlapped)
               \/ HasEscape(o1.order_number)

\* C9 happens: two interleaved runs both counted no order with the number,
\* both inserted it and both committed
C9_Witness ==
    \E o1, o2 \in orders :
        /\ o1.id # o2.id
        /\ o1.order_number = o2.order_number
        /\ ~HasEscape(o1.order_number)
        /\ {o1.run, o2.run} \in overlapped

Unmapped(v, ship_month) ==
    IF v = "F25" THEN ship_month \notin DOMAIN SHIP_MONTH_MAP_F25
    ELSE ship_month \notin DOMAIN SHIP_MONTH_MAP_S26

\* The groups of run r with an order whose ship month is not in SHIP_MONTH_MAP
UnmappedOrdered(r) == { g \in DOMAIN run[r].order_map : Unmapped(variant, g[3]) }

OrderById(r, id) == CHOOSE o \in ViewOrders(r) : o.id = id

\* C10 (as claimed): the orders of groups whose ship month is not in the map
\* all have the default ship date and one and the same period token
C10_DefaultDateAndToken ==
    \A r \in Runs : \A g, h \in UnmappedOrdered(r) :
        LET o == OrderById(r, run[r].order_map[g])
            n == OrderById(r, run[r].order_map[h])
        IN  /\ o.ship_date = IF variant = "F25" THEN "2025-08-01" ELSE "2026-03-01"
            /\ TokenOf(o.order_number) = TokenOf(n.order_number)

\* C10 (amended): when the order loop is over, every group whose brand and gym
\* resolve and whose ship month (a text in F25, a number in S26) is not in the
\* map has its order, with the default ship date; its period token is "MAR" in
\* S26 and, in F25, the first three characters of the trimmed label in upper case
C10_DefaultDateAmended ==
    \A r \in Runs : run[r].pc \in {"items", "totals", "commit"} =>
        \A i \in 1..Len(run[r].df) :
            LET row == run[r].df[i] IN
            ( /\ "Ship Month" \notin row.missing
              /\ Resolved(row.Brand, row.Gym)
              /\ Unmapped(variant, row.ShipMonth) )
            => /\ GroupKey(row) \in DOMAIN run[r].order_map
               /\ LET o == OrderById(r, run[r].order_map[GroupKey(row)])
                  IN  /\ o \in OwnOrders(r)
                      /\ o.ship_date =
                            IF variant = "F25" THEN "2025-08-01" ELSE "2026-03-01"
                      /\ TokenOf(o.order_number) =
                            IF variant = "F25"
                            THEN Upper(Prefix(Strip(row.ShipMonth), 3)) \o "25"
                            ELSE "MAR26"

\* C10 happens: an F25 run has created the order of a group whose label is
\* not in the map, and its token is not the month of the default ship date
C10_Witness ==
    \E r \in Runs :
        /\ variant = "F25"
        /\ run[r].pc = "commit"
        /\ \E g \in UnmappedOrdered(r) :
              LET o == OrderById(r, run[r].order_map[g])
              IN  o.ship_date = "2025-08-01" /\ TokenOf(o.order_number) = "MAR25"

=============================================================================
